---- MODULE Spec2Model ----
(***************************************************************************)
(* A model of the singly linked list library of src/linked_list.c: the     *)
(* allocator slots, list headers, nodes and iterators as a small heap, and *)
(* one action per library function.                                        *)
(*                                                                         *)
(* Every C function is an operator from the heap before the call to the    *)
(* SET of its possible outcomes: the registered allocate function may      *)
(* return none at any call, and undefined behaviour (a read through an     *)
(* absent or released node, a call through an unset slot) has every        *)
(* outcome a build can produce: a trap, or the read yielding any value.    *)
(* Execution is not followed beyond an undefined step.                     *)
(***************************************************************************)
EXTENDS Integers, Sequences, FiniteSets

\* ---------------------------------------------------------------- bounds
MaxNodes == 3   \* node blocks the allocator can hand out at one time
MaxLists == 2   \* list header blocks
MaxIters == 2   \* iterator blocks
MaxVal   == 2   \* data values are 1..MaxVal

NodeAddr == 1..MaxNodes
ListAddr == 1..MaxLists
IterAddr == 1..MaxIters
Values   == 1..MaxVal
Indices  == 0..(MaxNodes + 1)
IndexCap == MaxNodes + 1   \* an iterator is advanced only below this index

\* ------------------------------------------------------------- constants
NULL     == 0            \* the absent pointer / unset slot
False    == 0            \* C bool false as returned
True     == 1            \* C bool true as returned
SIZE_MAX == 2147483647   \* stands for the largest size_t (the sentinel)

MallocFns == {1}   \* the non-null allocate functions a caller can register
FreeFns   == {1}   \* the non-null release functions

VARIABLES
    malloc_fptr,  \* static slot, line 6
    free_fptr,    \* static slot, line 7
    lists,        \* ListAddr -> [head, size]          (struct linked_list)
    liveL,        \* list headers allocated and not released
    nodes,        \* NodeAddr -> [data, next]          (struct node)
    liveN,        \* nodes allocated and not released
    iters,        \* IterAddr -> [ll, current_index, current_node, data]
    liveI,        \* iterators allocated and not released
    obs,          \* per iterator: what its user has read since creation
    status,       \* "ok" | "trap" | "undefined"
    last,         \* the last call: function, arguments, return value
    pre,          \* the program state just before the last call
    round         \* in a round-trip program: inserts that succeeded, removes made

vars == <<malloc_fptr, free_fptr, lists, liveL, nodes, liveN, iters, liveI,
          obs, status, last, pre, round>>

\* --------------------------------------------------------------- helpers
Min(S) == CHOOSE x \in S : \A y \in S : x <= y

NoList == [head |-> NULL, size |-> 0]
NoNode == [data |-> 0, next |-> NULL]
NoIter == [ll |-> NULL, current_index |-> 0, current_node |-> NULL, data |-> 0]
NoObs  == [fresh |-> FALSE, start |-> 0, reads |-> <<>>, shrunk |-> FALSE]

\* The heap as one value, so that a function maps heap to heap.
Heap == [lists |-> lists, liveL |-> liveL, nodes |-> nodes, liveN |-> liveN,
         iters |-> iters, liveI |-> liveI]

\* A decrement that is lost.
Dec_Lost(n) == n

\* size_t arithmetic: ++ and -- wrap around.
Inc(n) == IF n = SIZE_MAX THEN 0 ELSE n + 1
Dec(n) == IF n = 0 THEN SIZE_MAX ELSE n - 1

\* What a call of the registered allocate function can return: none, or the
\* lowest block of the pool that is not in use.
MallocResults(pool, live) ==
    {NULL} \cup (IF pool \ live = {} THEN {} ELSE {Min(pool \ live)})

\* free_fptr(node): the block is no longer live, its contents are gone.
FreeNode(h, n) ==
    IF n = NULL THEN h
    ELSE [h EXCEPT !.liveN = @ \ {n}, !.nodes[n] = NoNode]

\* Outcomes of a call.
Out(h, ret, alloc) == [h |-> h, ret |-> ret, st |-> "ok", alloc |-> alloc]
Trap(h)            == [h |-> h, ret |-> 0, st |-> "trap", alloc |-> "none"]
Undef(h, ret)      == [h |-> h, ret |-> ret, st |-> "undefined", alloc |-> "none"]

\* The nodes from a pointer on, following next (at most fuel of them).
RECURSIVE ChainFrom(_, _, _)
ChainFrom(nd, cur, fuel) ==
    IF cur = NULL \/ fuel = 0 THEN <<>>
    ELSE <<cur>> \o ChainFrom(nd, nd[cur].next, fuel - 1)

Chain(h, ll)    == ChainFrom(h.nodes, h.lists[ll].head, MaxNodes + 1)
Contents(h, ll) == [i \in 1..Len(Chain(h, ll)) |-> h.nodes[Chain(h, ll)[i]].data]

\* -------------------------------------------------- linked_list_create
linked_list_create(h) ==
    IF malloc_fptr = NULL THEN {Trap(h)}
    ELSE { IF ll = NULL THEN Out(h, NULL, "fail")
           ELSE Out([h EXCEPT !.lists[ll] = [head |-> NULL, size |-> 0],
                              !.liveL = @ \cup {ll}], ll, "ok")
           : ll \in MallocResults(ListAddr, h.liveL) }

\* -------------------------------------------------- linked_list_delete
RECURSIVE FreeChain(_, _, _)
FreeChain(h, cur, fuel) ==
    IF cur = NULL \/ fuel = 0 THEN h
    ELSE FreeChain(FreeNode(h, cur), h.nodes[cur].next, fuel - 1)

linked_list_delete(h, ll) ==
    IF ll = NULL THEN {Out(h, False, "none")}
    ELSE IF free_fptr = NULL THEN {Trap(h)}
    ELSE LET h1 == FreeChain(h, h.lists[ll].head, MaxNodes + 1)
         IN {Out([h1 EXCEPT !.liveL = @ \ {ll}, !.lists[ll] = NoList],
                 True, "none")}

\* ---------------------------------------------------- linked_list_size
\* linked_list_size answering 0 for the absent list.
linked_list_size_ZeroForAbsent(h, ll) ==
    IF ll = NULL THEN {Out(h, 0, "none")}
    ELSE {Out(h, h.lists[ll].size, "none")}

linked_list_size(h, ll) ==
    IF ll = NULL THEN {Out(h, SIZE_MAX, "none")}
    ELSE {Out(h, h.lists[ll].size, "none")}

\* ---------------------------------------------- linked_list_insert_end
RECURSIVE LastNode(_, _)
LastNode(nd, cur) ==
    IF nd[cur].next # NULL THEN LastNode(nd, nd[cur].next) ELSE cur

linked_list_insert_end(h, ll, data) ==
    IF ll = NULL THEN {Out(h, False, "none")}
    ELSE IF malloc_fptr = NULL THEN {Trap(h)}
    ELSE { IF node = NULL THEN Out(h, False, "fail")
           ELSE LET cur == h.lists[ll].head
                    h1  == [h EXCEPT !.nodes[node] = [data |-> data, next |-> NULL],
                                     !.liveN = @ \cup {node}]
                    h2  == IF cur = NULL
                           THEN [h1 EXCEPT !.lists[ll].head = node]
                           ELSE [h1 EXCEPT !.nodes[LastNode(h.nodes, cur)].next = node]
                IN Out([h2 EXCEPT !.lists[ll].size = Inc(@)], True, "ok")
           : node \in MallocResults(NodeAddr, h.liveN) }

\* linked_list_insert_front counting the node before it has one.
linked_list_insert_front_CountsFirst(h, ll, data) ==
    IF ll = NULL THEN {Out(h, False, "none")}
    ELSE IF malloc_fptr = NULL THEN {Trap(h)}
    ELSE { IF node = NULL
           THEN Out([h EXCEPT !.lists[ll].size = Inc(@)], False, "fail")
           ELSE Out([h EXCEPT !.nodes[node] = [data |-> data,
                                                next |-> h.lists[ll].head],
                              !.liveN = @ \cup {node},
                              !.lists[ll].head = node,
                              !.lists[ll].size = Inc(@)], True, "ok")
           : node \in MallocResults(NodeAddr, h.liveN) }

\* linked_list_insert_front releasing the node it pushes down.
linked_list_insert_front_ReleasesHead(h, ll, data) ==
    IF ll = NULL THEN {Out(h, False, "none")}
    ELSE IF malloc_fptr = NULL THEN {Trap(h)}
    ELSE { IF node = NULL THEN Out(h, False, "fail")
           ELSE LET old == h.lists[ll].head
                    nxt == IF old = NULL THEN NULL ELSE h.nodes[old].next
                    h1  == [h EXCEPT !.nodes[node] = [data |-> data, next |-> nxt],
                                     !.liveN = @ \cup {node},
                                     !.lists[ll].head = node]
                IN Out(FreeNode(h1, old), True, "ok")
           : node \in MallocResults(NodeAddr, h.liveN) }

\* linked_list_iterate that leaves current_index where it was.
linked_list_iterate_KeepsIndex(h, iter) ==
    IF iter = NULL THEN {Out(h, False, "none")}
    ELSE LET it == h.iters[iter] IN
         IF it.current_node = NULL THEN {Out(h, False, "none")}
         ELSE LET nxt == h.nodes[it.current_node].next IN
              IF nxt = NULL
              THEN {Out([h EXCEPT !.iters[iter].current_node = NULL], False, "none")}
              ELSE {Out([h EXCEPT !.iters[iter].current_node = nxt,
                                  !.iters[iter].data = h.nodes[nxt].data],
                        True, "none")}

\* -------------------------------------------- linked_list_insert_front
linked_list_insert_front(h, ll, data) ==
    IF ll = NULL THEN {Out(h, False, "none")}
    ELSE IF malloc_fptr = NULL THEN {Trap(h)}
    ELSE { IF node = NULL THEN Out(h, False, "fail")
           ELSE Out([h EXCEPT !.nodes[node] = [data |-> data,
                                                next |-> h.lists[ll].head],
                              !.liveN = @ \cup {node},
                              !.lists[ll].head = node,
                              !.lists[ll].size = Inc(@)], True, "ok")
           : node \in MallocResults(NodeAddr, h.liveN) }

\* -------------------------------------------------- linked_list_insert
\* InsertRejects refusing the append position.
InsertRejects_AtSize(index, size) == index < 0 \/ index >= size

\* InsertRejects with the bound off by one.
InsertRejects_OffByOne(index, size) == index < 0 \/ index > size + 1

\* line 134: the index is rejected.
InsertRejects(index, size) == index < 0 \/ index > size

\* InsertWalk going one node too far.
RECURSIVE InsertWalk_TooFar(_, _, _, _, _)
InsertWalk_TooFar(nd, prev, cur, cur_idx, index) ==
    IF cur # NULL /\ cur_idx <= index
    THEN InsertWalk_TooFar(nd, cur, nd[cur].next, cur_idx + 1, index)
    ELSE [prev |-> prev, cur |-> cur]

\* lines 143-148: the walk to the node at index and its predecessor.
RECURSIVE InsertWalk(_, _, _, _, _)
InsertWalk(nd, prev, cur, cur_idx, index) ==
    IF cur # NULL /\ cur_idx < index
    THEN InsertWalk(nd, cur, nd[cur].next, cur_idx + 1, index)
    ELSE [prev |-> prev, cur |-> cur]

linked_list_insert(h, ll, index, data) ==
    IF ll = NULL THEN {Out(h, False, "none")}
    ELSE IF InsertRejects(index, h.lists[ll].size) THEN {Out(h, False, "none")}
    ELSE IF index = 0 THEN linked_list_insert_front(h, ll, data)
    ELSE IF index = h.lists[ll].size THEN linked_list_insert_end(h, ll, data)
    ELSE IF malloc_fptr = NULL THEN {Trap(h)}
    ELSE LET w == InsertWalk(h.nodes, NULL, h.lists[ll].head, 0, index)
         IN { IF new = NULL THEN Out(h, False, "fail")
              ELSE Out([h EXCEPT !.nodes[new] = [data |-> data, next |-> w.cur],
                                 !.nodes[w.prev].next = new,
                                 !.liveN = @ \cup {new},
                                 !.lists[ll].size = Inc(@)], True, "ok")
              : new \in MallocResults(NodeAddr, h.liveN) }

\* ---------------------------------------------------- linked_list_find
\* FindFrom counting the node before comparing it.
RECURSIVE FindFrom_CountFirst(_, _, _, _)
FindFrom_CountFirst(nd, cur, idx, data) ==
    IF cur = NULL THEN SIZE_MAX
    ELSE IF nd[cur].data = data THEN idx + 1
    ELSE FindFrom_CountFirst(nd, nd[cur].next, idx + 1, data)

RECURSIVE FindFrom(_, _, _, _)
FindFrom(nd, cur, idx, data) ==
    IF cur = NULL THEN SIZE_MAX
    ELSE IF nd[cur].data = data THEN idx
    ELSE FindFrom(nd, nd[cur].next, idx + 1, data)

linked_list_find(h, ll, data) ==
    IF ll = NULL THEN {Out(h, SIZE_MAX, "none")}
    ELSE {Out(h, FindFrom(h.nodes, h.lists[ll].head, 0, data), "none")}

\* -------------------------------------------------- linked_list_remove
\* line 191: the index is rejected.
RemoveRejects(index, size) == index < 0 \/ index > size

\* RemoveWalk going one node too far.
RECURSIVE RemoveWalk_TooFar(_, _, _, _, _)
RemoveWalk_TooFar(nd, prev, cur, idx, index) ==
    IF cur # NULL /\ idx <= index
    THEN RemoveWalk_TooFar(nd, cur, nd[cur].next, idx + 1, index)
    ELSE [prev |-> prev, cur |-> cur]

\* lines 199-204: the walk to the node at index and its predecessor.
RECURSIVE RemoveWalk(_, _, _, _, _)
RemoveWalk(nd, prev, cur, idx, index) ==
    IF cur # NULL /\ idx < index
    THEN RemoveWalk(nd, cur, nd[cur].next, idx + 1, index)
    ELSE [prev |-> prev, cur |-> cur]

\* line 196 with cur absent (the list is empty): ll->head = cur->next reads
\* through the absent pointer. Either the read traps, or it yields some
\* pointer g, after which free_fptr(NULL) and ll->size-- run and the call
\* returns true.
RemoveHeadOfEmpty(h, ll) ==
    {Trap(h)} \cup
    (IF free_fptr = NULL THEN {}
     ELSE { Undef([h EXCEPT !.lists[ll].head = g, !.lists[ll].size = Dec(@)], True)
            : g \in {NULL} \cup NodeAddr })

linked_list_remove(h, ll, index) ==
    IF ll = NULL THEN {Out(h, False, "none")}
    ELSE IF RemoveRejects(index, h.lists[ll].size) THEN {Out(h, False, "none")}
    ELSE LET cur == h.lists[ll].head IN
         IF index = 0
         THEN IF cur = NULL THEN RemoveHeadOfEmpty(h, ll)
              ELSE IF free_fptr = NULL THEN {Trap(h)}
              ELSE LET h1 == [h EXCEPT !.lists[ll].head = h.nodes[cur].next]
                       h2 == FreeNode(h1, cur)
                   IN {Out([h2 EXCEPT !.lists[ll].size = Dec(@)], True, "none")}
         ELSE LET w == RemoveWalk(h.nodes, NULL, cur, 0, index) IN
              IF w.cur = NULL THEN {Out(h, False, "none")}
              ELSE IF free_fptr = NULL THEN {Trap(h)}
              ELSE LET h1 == [h EXCEPT !.nodes[w.prev].next = h.nodes[w.cur].next,
                                       !.nodes[w.cur].next = NULL]
                       h2 == FreeNode(h1, w.cur)
                   IN {Out([h2 EXCEPT !.lists[ll].size = Dec(@)], True, "none")}

\* ----------------------------------------- linked_list_create_iterator
\* line 226: the index is rejected.
IteratorRejects(index, size) == index > size

\* IteratorWalk stopping one node short.
RECURSIVE IteratorWalk_StopsShort(_, _, _, _)
IteratorWalk_StopsShort(nd, cur, idx, index) ==
    IF cur # NULL /\ idx + 1 < index
    THEN IteratorWalk_StopsShort(nd, nd[cur].next, idx + 1, index)
    ELSE [cur |-> cur, idx |-> idx]

\* IteratorWalk going one node too far.
RECURSIVE IteratorWalk_TooFar(_, _, _, _)
IteratorWalk_TooFar(nd, cur, idx, index) ==
    IF cur # NULL /\ idx <= index
    THEN IteratorWalk_TooFar(nd, nd[cur].next, idx + 1, index)
    ELSE [cur |-> cur, idx |-> idx]

\* lines 230-234: the walk to the node at index.
RECURSIVE IteratorWalk(_, _, _, _)
IteratorWalk(nd, cur, idx, index) ==
    IF cur # NULL /\ idx < index
    THEN IteratorWalk(nd, nd[cur].next, idx + 1, index)
    ELSE [cur |-> cur, idx |-> idx]

linked_list_create_iterator(h, ll, index) ==
    IF ll = NULL \/ IteratorRejects(index, h.lists[ll].size)
    THEN {Out(h, NULL, "none")}
    ELSE LET w == IteratorWalk(h.nodes, h.lists[ll].head, 0, index) IN
         IF w.cur = NULL THEN {Out(h, NULL, "none")}
         ELSE IF malloc_fptr = NULL THEN {Trap(h)}
         ELSE { IF it = NULL THEN Out(h, NULL, "fail")
                ELSE Out([h EXCEPT !.iters[it] =
                                       [ll |-> ll, current_index |-> w.idx,
                                        current_node |-> w.cur,
                                        data |-> h.nodes[w.cur].data],
                                   !.liveI = @ \cup {it}], it, "ok")
                : it \in MallocResults(IterAddr, h.liveI) }

\* linked_list_delete_iterator releasing the node the iterator is on too.
linked_list_delete_iterator_ReleasesNode(h, iter) ==
    IF iter = NULL THEN {Out(h, False, "none")}
    ELSE IF free_fptr = NULL THEN {Trap(h)}
    ELSE {Out([FreeNode(h, h.iters[iter].current_node)
                  EXCEPT !.liveI = @ \ {iter}, !.iters[iter] = NoIter],
              True, "none")}

\* ----------------------------------------- linked_list_delete_iterator
linked_list_delete_iterator(h, iter) ==
    IF iter = NULL THEN {Out(h, False, "none")}
    ELSE IF free_fptr = NULL THEN {Trap(h)}
    ELSE {Out([h EXCEPT !.liveI = @ \ {iter}, !.iters[iter] = NoIter],
              True, "none")}

\* ------------------------------------------------- linked_list_iterate
\* line 267 with current_node released: the read of current_node->next is
\* through a dangling pointer. Either it traps, or it yields some pointer
\* nxt; the read of nxt->data at line 271 is then of that node's value if
\* the node is live, and of anything if it is not.
IterateDangling(h, iter) ==
    {Trap(h)} \cup
    {Undef([h EXCEPT !.iters[iter].current_node = NULL], False)} \cup
    UNION { { Undef([h EXCEPT !.iters[iter].current_node = nxt,
                              !.iters[iter].current_index = Inc(@),
                              !.iters[iter].data = d], True)
              : d \in (IF nxt \in h.liveN THEN {h.nodes[nxt].data} ELSE Values) }
            : nxt \in NodeAddr }

\* linked_list_iterate that moves on without refreshing the cached data.
linked_list_iterate_StaleData(h, iter) ==
    IF iter = NULL THEN {Out(h, False, "none")}
    ELSE LET it == h.iters[iter] IN
         IF it.current_node = NULL THEN {Out(h, False, "none")}
         ELSE IF it.current_node \notin h.liveN THEN IterateDangling(h, iter)
         ELSE LET nxt == h.nodes[it.current_node].next IN
              IF nxt = NULL
              THEN {Out([h EXCEPT !.iters[iter].current_node = NULL], False, "none")}
              ELSE {Out([h EXCEPT !.iters[iter].current_node = nxt,
                                  !.iters[iter].current_index = Inc(@)],
                        True, "none")}

\* linked_list_iterate that counts the step before it looks for the node.
linked_list_iterate_CountsFirst(h, iter) ==
    IF iter = NULL THEN {Out(h, False, "none")}
    ELSE LET it == h.iters[iter] IN
         IF it.current_node = NULL THEN {Out(h, False, "none")}
         ELSE IF it.current_node \notin h.liveN THEN IterateDangling(h, iter)
         ELSE LET nxt == h.nodes[it.current_node].next IN
              IF nxt = NULL
              THEN {Out([h EXCEPT !.iters[iter].current_node = NULL,
                                  !.iters[iter].current_index = Inc(@)],
                        False, "none")}
              ELSE {Out([h EXCEPT !.iters[iter].current_node = nxt,
                                  !.iters[iter].current_index = Inc(@),
                                  !.iters[iter].data = h.nodes[nxt].data],
                        True, "none")}

linked_list_iterate(h, iter) ==
    IF iter = NULL THEN {Out(h, False, "none")}
    ELSE LET it == h.iters[iter] IN
         IF it.current_node = NULL THEN {Out(h, False, "none")}
         ELSE IF it.current_node \notin h.liveN THEN IterateDangling(h, iter)
         ELSE LET nxt == h.nodes[it.current_node].next IN
              IF nxt = NULL
              THEN {Out([h EXCEPT !.iters[iter].current_node = NULL], False, "none")}
              ELSE {Out([h EXCEPT !.iters[iter].current_node = nxt,
                                  !.iters[iter].current_index = Inc(@),
                                  !.iters[iter].data = h.nodes[nxt].data],
                        True, "none")}

\* ----------------------- linked_list_register_malloc / _register_free
\* RegisterSlot storing whatever it is given.
RegisterSlot_StoresAnything(slot, fn) == fn

\* The value the slot holds after the call, and the value returned.
RegisterSlot(slot, fn) == IF fn = NULL THEN slot ELSE fn
RegisterRet(fn)        == IF fn = NULL THEN False ELSE True

\* ================================================================ state
InitHeap ==
    /\ malloc_fptr = NULL
    /\ free_fptr = NULL
    /\ lists = [l \in ListAddr |-> NoList]
    /\ liveL = {}
    /\ nodes = [n \in NodeAddr |-> NoNode]
    /\ liveN = {}
    /\ iters = [i \in IterAddr |-> NoIter]
    /\ liveI = {}
    /\ obs = [i \in IterAddr |-> NoObs]
    /\ status = "ok"
    /\ last = [op |-> "init", ll |-> NULL, it |-> NULL, index |-> 0, data |-> 0,
               fn |-> NULL, ret |-> 0, alloc |-> "none"]
    /\ pre = [h |-> [lists |-> [l \in ListAddr |-> NoList], liveL |-> {},
                     nodes |-> [n \in NodeAddr |-> NoNode], liveN |-> {},
                     iters |-> [i \in IterAddr |-> NoIter], liveI |-> {}],
              malloc_fptr |-> NULL, free_fptr |-> NULL,
              obs |-> [i \in IterAddr |-> NoObs]]

Call(op, ll, it, index, data) ==
    [op |-> op, ll |-> ll, it |-> it, index |-> index, data |-> data,
     fn |-> NULL, ret |-> 0, alloc |-> "none"]

Snapshot == [h |-> Heap, malloc_fptr |-> malloc_fptr, free_fptr |-> free_fptr,
             obs |-> obs]

Mutators  == {"insert_front", "insert_end", "insert", "remove", "delete"}
Shrinkers == {"remove", "delete"}

\* Init: the state of the library when the program starts. Only the
\* round-trip program (InitRound) counts its inserts and removes.
NoRound == [phase |-> "off", n |-> 0, m |-> 0]

Init      == InitHeap /\ round = NoRound
InitRound == InitHeap /\ round = [NoRound EXCEPT !.phase = "build"]

Inserters == {"insert_front", "insert_end", "insert"}

\* The count of the round-trip program after a call: n inserts have returned
\* true, and m removes have been called; the first remove ends the building.
RoundAfter(call, o) ==
    IF round.phase = "off" THEN round
    ELSE IF call.op \in Inserters /\ o.st = "ok" /\ o.ret = True
    THEN [round EXCEPT !.n = @ + 1]
    ELSE IF call.op = "remove"
    THEN [round EXCEPT !.phase = "drain", !.m = @ + 1]
    ELSE round

\* What the user of each iterator has read so far: the cached data after
\* creation and after each advance that returned true. The record is kept
\* only while the iterator's list has not been mutated since its creation
\* (fresh); shrunk tells that a remove or a delete has succeeded on the
\* iterator's list since then.
ObsAfter(call, o) ==
    IF o.st # "ok" THEN obs
    ELSE IF call.op \in Mutators /\ o.ret = True
    THEN [i \in IterAddr |->
            IF i \in liveI /\ iters[i].ll = call.ll
            THEN [NoObs EXCEPT !.shrunk = obs[i].shrunk \/ call.op \in Shrinkers]
            ELSE obs[i]]
    ELSE IF call.op = "create_iterator" /\ o.ret # NULL
    THEN [obs EXCEPT ![o.ret] = [fresh |-> TRUE, start |-> call.index,
                                 reads |-> <<o.h.iters[o.ret].data>>,
                                 shrunk |-> FALSE]]
    ELSE IF call.op = "iterate" /\ o.ret = True /\ obs[call.it].fresh
    THEN [obs EXCEPT ![call.it].reads = Append(@, o.h.iters[call.it].data)]
    ELSE IF call.op = "delete_iterator" /\ o.ret = True
    THEN [obs EXCEPT ![call.it] = NoObs]
    ELSE obs

\* One call of a library function: one of its outcomes becomes the state.
Do(call, outcomes) ==
    /\ status = "ok"
    /\ \E o \in outcomes :
        /\ lists' = o.h.lists
        /\ liveL' = o.h.liveL
        /\ nodes' = o.h.nodes
        /\ liveN' = o.h.liveN
        /\ iters' = o.h.iters
        /\ liveI' = o.h.liveI
        /\ obs' = ObsAfter(call, o)
        /\ status' = o.st
        /\ last' = [call EXCEPT !.ret = o.ret, !.alloc = o.alloc]
        /\ pre' = Snapshot
        /\ round' = RoundAfter(call, o)
    /\ UNCHANGED <<malloc_fptr, free_fptr>>

\* ============================================================== actions
\* One action per library function. L and I are the list and iterator
\* arguments the calling program passes: its live lists and iterators, and
\* in some programs the absent pointer as well.
Create ==
    Do(Call("create", NULL, NULL, 0, 0), linked_list_create(Heap))

Delete(L) ==
    \E ll \in L :
        Do(Call("delete", ll, NULL, 0, 0), linked_list_delete(Heap, ll))

Size(L) ==
    \E ll \in L :
        Do(Call("size", ll, NULL, 0, 0), linked_list_size(Heap, ll))

InsertEnd(L) ==
    \E ll \in L, data \in Values :
        Do(Call("insert_end", ll, NULL, 0, data),
           linked_list_insert_end(Heap, ll, data))

InsertFront(L) ==
    \E ll \in L, data \in Values :
        Do(Call("insert_front", ll, NULL, 0, data),
           linked_list_insert_front(Heap, ll, data))

Insert(L) ==
    \E ll \in L, index \in Indices, data \in Values :
        Do(Call("insert", ll, NULL, index, data),
           linked_list_insert(Heap, ll, index, data))

Find(L) ==
    \E ll \in L, data \in Values :
        Do(Call("find", ll, NULL, 0, data), linked_list_find(Heap, ll, data))

Remove(L) ==
    \E ll \in L, index \in Indices :
        Do(Call("remove", ll, NULL, index, 0),
           linked_list_remove(Heap, ll, index))

CreateIterator(L) ==
    \E ll \in L, index \in Indices :
        Do(Call("create_iterator", ll, NULL, index, 0),
           linked_list_create_iterator(Heap, ll, index))

DeleteIterator(I) ==
    \E it \in I :
        Do(Call("delete_iterator", NULL, it, 0, 0),
           linked_list_delete_iterator(Heap, it))

Iterate(I) ==
    \E it \in I :
        /\ it # NULL => iters[it].current_index < IndexCap
        /\ Do(Call("iterate", NULL, it, 0, 0), linked_list_iterate(Heap, it))

RegisterMalloc ==
    /\ status = "ok"
    /\ \E fn \in MallocFns \cup {NULL} :
        /\ malloc_fptr' = RegisterSlot(malloc_fptr, fn)
        /\ last' = [op |-> "register_malloc", ll |-> NULL, it |-> NULL,
                    index |-> 0, data |-> 0, fn |-> fn,
                    ret |-> RegisterRet(fn), alloc |-> "none"]
    /\ pre' = Snapshot
    /\ UNCHANGED <<free_fptr, lists, liveL, nodes, liveN, iters, liveI, obs,
                   status, round>>

RegisterFree ==
    /\ status = "ok"
    /\ \E fn \in FreeFns \cup {NULL} :
        /\ free_fptr' = RegisterSlot(free_fptr, fn)
        /\ last' = [op |-> "register_free", ll |-> NULL, it |-> NULL,
                    index |-> 0, data |-> 0, fn |-> fn,
                    ret |-> RegisterRet(fn), alloc |-> "none"]
    /\ pre' = Snapshot
    /\ UNCHANGED <<malloc_fptr, lists, liveL, nodes, liveN, iters, liveI, obs,
                   status, round>>

\* ------------------------------------------------------- specifications
\* The allocator functions are registered during setup, before any list
\* exists.
RegisterMallocSetup == liveL = {} /\ RegisterMalloc
RegisterFreeSetup   == liveL = {} /\ RegisterFree

\* SpecList: a program that keeps one list at a time and takes no iterator.
CreateOne == liveL = {} /\ Create

NextList ==
    \/ RegisterMallocSetup
    \/ RegisterFreeSetup
    \/ CreateOne
    \/ Delete(liveL)
    \/ Size(liveL)
    \/ InsertEnd(liveL)
    \/ InsertFront(liveL)
    \/ Insert(liveL)
    \/ Find(liveL \cup {NULL})
    \/ Remove(liveL)

SpecList == Init /\ [][NextList]_vars

\* SpecIter: a program that fills one list by every insert function and
\* then reads it through one iterator at a time; it does not mutate the list
\* while it holds an iterator.
CreateIteratorOne == liveI = {} /\ CreateIterator(liveL)
InsertEndQuiet    == liveI = {} /\ InsertEnd(liveL)
InsertFrontQuiet  == liveI = {} /\ InsertFront(liveL)
InsertQuiet       == liveI = {} /\ Insert(liveL)

NextIter ==
    \/ RegisterMallocSetup
    \/ RegisterFreeSetup
    \/ CreateOne
    \/ InsertEndQuiet
    \/ InsertFrontQuiet
    \/ InsertQuiet
    \/ CreateIteratorOne
    \/ DeleteIterator(liveI)
    \/ Iterate(liveI)

SpecIter == Init /\ [][NextIter]_vars

\* SpecArgs: a program that registers the allocator functions at any time,
\* builds one list, takes one iterator on it, and passes the absent pointer
\* to every function.
NextArgs ==
    \/ RegisterMalloc
    \/ RegisterFree
    \/ CreateOne
    \/ Delete({NULL})
    \/ Size({NULL})
    \/ InsertEndQuiet
    \/ InsertEnd({NULL})
    \/ InsertFront({NULL})
    \/ Insert({NULL})
    \/ Find({NULL})
    \/ Remove({NULL})
    \/ CreateIteratorOne
    \/ CreateIterator({NULL})
    \/ DeleteIterator(liveI \cup {NULL})
    \/ Iterate({NULL})

SpecArgs == Init /\ [][NextArgs]_vars

\* SpecStale: a program that keeps one list and one iterator and goes on
\* inserting into, removing from and deleting the list while the iterator is
\* alive and being advanced. All the elements it inserts have one value.
InsertEndSame   == InsertEnd(liveL) /\ last'.data = Min(Values)
InsertFrontSame == InsertFront(liveL) /\ last'.data = Min(Values)

NextStale ==
    \/ RegisterMallocSetup
    \/ RegisterFreeSetup
    \/ CreateOne
    \/ Delete(liveL)
    \/ InsertEndSame
    \/ InsertFrontSame
    \/ Remove(liveL)
    \/ CreateIteratorOne
    \/ DeleteIterator(liveI)
    \/ Iterate(liveI)

SpecStale == Init /\ [][NextStale]_vars

\* SpecPair: a program that builds one list and then creates and deletes
\* iterators on it, as many at a time as the allocator gives it.
NextPair ==
    \/ RegisterMallocSetup
    \/ RegisterFreeSetup
    \/ CreateOne
    \/ InsertEndQuiet
    \/ CreateIterator(liveL)
    \/ DeleteIterator(liveI)

SpecPair == Init /\ [][NextPair]_vars

\* SpecRound: the round-trip program. It builds one list from empty with
\* inserts of every kind, then removes at index 0 as many times as inserts
\* have succeeded, and inserts no more.
InsertEndBuild   == round.phase = "build" /\ InsertEnd(liveL)
InsertFrontBuild == round.phase = "build" /\ InsertFront(liveL)
InsertBuild      == round.phase = "build" /\ Insert(liveL)
RemoveFirst      == round.m < round.n /\ Remove(liveL) /\ last'.index = 0

NextRound ==
    \/ RegisterMallocSetup
    \/ RegisterFreeSetup
    \/ CreateOne
    \/ InsertEndBuild
    \/ InsertFrontBuild
    \/ InsertBuild
    \/ RemoveFirst

SpecRound == InitRound /\ [][NextRound]_vars

\* SpecLists: a program that keeps as many lists as the allocator gives
\* it, inserts into and removes from any of them and deletes them, and takes
\* no iterator. All the elements it inserts have one value.
NextLists ==
    \/ RegisterMallocSetup
    \/ RegisterFreeSetup
    \/ Create
    \/ Delete(liveL)
    \/ InsertEndSame
    \/ InsertFrontSame
    \/ Remove(liveL)

SpecLists == Init /\ [][NextLists]_vars

\* =============================================================== claims
\* What the claims speak of: the sequence a list holds, before and after
\* the last call.
Holds(ll)    == Contents(Heap, ll)
Held(ll)     == Contents(pre.h, ll)
SizeNow(ll)  == lists[ll].size
SizeThen(ll) == pre.h.lists[ll].size
Unchanged    == Heap = pre.h

\* s with v put at (0-based) position i; s without its element at position i.
InsertAt(s, i, v) == SubSeq(s, 1, i) \o <<v>> \o SubSeq(s, i + 1, Len(s))
RemoveAt(s, i)    == SubSeq(s, 1, i) \o SubSeq(s, i + 2, Len(s))

\* The last call was op on a list (not on the absent pointer).
OnList(op) == last.op = op /\ last.ll # NULL

\* C1: in every state reached by insert_front, insert_end, insert and remove
\* calls on a created list, the cached size equals the number of nodes
\* reachable from head.
C1_SizeEqualsReachable ==
    \A ll \in liveL : SizeNow(ll) = Len(Chain(Heap, ll))

\* C2: remove at an index where no node exists (index = size, index 0 on an
\* empty list included) returns false and leaves head, chain and size as
\* they were, without reading through an absent node.
C2_RemoveAtSizeFails ==
    (OnList("remove") /\ last.index = SizeThen(last.ll) /\ pre.free_fptr # NULL)
        => (status = "ok" /\ last.ret = False /\ Unchanged)

\* C3: for every list and every index > size, insert returns false and remove
\* returns false, and the chain and the size are unchanged.
C3_BeyondSizeRejected ==
    ((OnList("insert") \/ OnList("remove")) /\ last.index > SizeThen(last.ll))
        => (status = "ok" /\ last.ret = False /\ Unchanged)

C3_Witness ==
    /\ OnList("insert")
    /\ SizeThen(last.ll) = 2
    /\ last.index = 3
    /\ last.ret = False

\* C4: for a list holding s and an index i with 0 <= i <= size, an insert
\* whose allocation succeeds returns true and leaves the list holding s with
\* v at position i (the elements before i in place, those from i on shifted
\* up by one), with size grown by exactly 1.
C4_InsertAtIndex ==
    (OnList("insert") /\ last.index <= SizeThen(last.ll) /\ last.alloc = "ok")
        => /\ status = "ok"
           /\ last.ret = True
           /\ Holds(last.ll) = InsertAt(Held(last.ll), last.index, last.data)
           /\ SizeNow(last.ll) = SizeThen(last.ll) + 1
           /\ \A l \in liveL \ {last.ll} : lists[l] = pre.h.lists[l]

C4_Witness ==
    /\ OnList("insert")
    /\ last.index = 1
    /\ SizeThen(last.ll) = 2
    /\ last.ret = True
    /\ Holds(last.ll) = <<1, 2, 1>>

\* C5: for a non-empty list holding s (created with both allocator functions
\* registered, as the library requires) and an index i < size, remove returns
\* true, leaves the list holding s without its element at position i,
\* releases exactly that node, and decrements size by exactly 1.
C5_RemoveAtIndex ==
    (OnList("remove") /\ last.index < SizeThen(last.ll) /\ pre.free_fptr # NULL)
        => /\ status = "ok"
           /\ last.ret = True
           /\ Holds(last.ll) = RemoveAt(Held(last.ll), last.index)
           /\ SizeNow(last.ll) = SizeThen(last.ll) - 1
           /\ liveN = pre.h.liveN \ {Chain(pre.h, last.ll)[last.index + 1]}
           /\ Chain(pre.h, last.ll)[last.index + 1] \in pre.h.liveN

C5_Witness ==
    /\ OnList("remove")
    /\ last.index = 1
    /\ Held(last.ll) = <<1, 2, 1>>
    /\ Holds(last.ll) = <<1, 1>>
    /\ SizeThen(last.ll) = 3
    /\ SizeNow(last.ll) = 2
    /\ last.ret = True

\* C8: find returns the lowest index whose element equals v when v occurs in
\* the list, the sentinel SIZE_MAX when it does not or the list is absent,
\* and never modifies the list.
C8_FindLowestIndex ==
    (last.op = "find")
        => /\ status = "ok"
           /\ Unchanged
           /\ IF last.ll = NULL THEN last.ret = SIZE_MAX
              ELSE LET s == Held(last.ll)
                       hits == {i \in 1..Len(s) : s[i] = last.data}
                   IN IF hits = {} THEN last.ret = SIZE_MAX
                      ELSE /\ last.ret + 1 \in hits
                           /\ \A i \in hits : last.ret + 1 <= i

C8_Witness ==
    /\ OnList("find")
    /\ Held(last.ll) = <<1, 2, 2>>
    /\ last.data = 2
    /\ last.ret = 1

\* C6: when the registered allocate function returns none during
\* insert_front, insert_end, insert (any index) or create_iterator, the call
\* reports failure (false / NULL) and the head, the chain and the size are
\* exactly as before the call.
AllocatingOps == {"insert_front", "insert_end", "insert", "create_iterator"}

C6_AllocFailureNoMutation ==
    (last.op \in AllocatingOps /\ last.alloc = "fail")
        => /\ status = "ok"
           /\ last.ret = False
           /\ last.ret = NULL
           /\ Unchanged

C6_Witness ==
    /\ OnList("insert")
    /\ last.alloc = "fail"
    /\ last.index = 1
    /\ SizeThen(last.ll) = 2
    /\ last.ret = False

C6_WitnessIterator ==
    /\ OnList("create_iterator")
    /\ last.alloc = "fail"
    /\ last.index < SizeThen(last.ll)
    /\ last.ret = NULL

\* C7: an iterator created at index 0, read after its creation and after each
\* advance that returned true, yields exactly the list's elements in chain
\* order; once an advance has returned false the number of elements read
\* equals the size; on an empty list the creation fails.
C7_IterationYieldsList ==
    /\ \A i \in liveI :
        (obs[i].fresh /\ obs[i].start = 0)
            => LET s == Holds(iters[i].ll)
                   r == obs[i].reads
               IN /\ Len(r) <= Len(s)
                  /\ r = SubSeq(s, 1, Len(r))
                  /\ iters[i].current_node = NULL
                        => (r = s /\ Len(r) = SizeNow(iters[i].ll))
                  /\ (last.op = "iterate" /\ last.it = i /\ last.ret = False)
                        => iters[i].current_node = NULL
    /\ (OnList("create_iterator") /\ SizeThen(last.ll) = 0) => last.ret = NULL

C7_Witness ==
    \E i \in liveI :
        /\ obs[i].fresh
        /\ obs[i].start = 0
        /\ last.op = "iterate"
        /\ last.it = i
        /\ last.ret = False
        /\ obs[i].reads = <<1, 2, 1>>
        /\ SizeNow(iters[i].ll) = 3

\* C9: once iterate has returned false for an iterator, every later iterate
\* on it returns false too, and its cached data and current_index stay those
\* of the last element it visited. (An iterate returns false exactly by
\* leaving current_node none; from there on every call leaves the iterator as
\* it is, and no other function writes to it.)
C9_PastEndStaysPastEnd ==
    /\ (last.op = "iterate" /\ last.it # NULL /\ last.ret = False)
          => /\ status = "ok"
             /\ iters[last.it].current_node = NULL
             /\ iters[last.it].data = pre.h.iters[last.it].data
             /\ iters[last.it].current_index = pre.h.iters[last.it].current_index
             /\ obs[last.it].fresh =>
                   LET s == Holds(iters[last.it].ll)
                   IN /\ iters[last.it].current_index = Len(s) - 1
                      /\ iters[last.it].data = s[Len(s)]
    /\ (last.op = "iterate" /\ last.it # NULL
            /\ pre.h.iters[last.it].current_node = NULL)
          => (status = "ok" /\ last.ret = False /\ Unchanged)
    /\ \A i \in liveI \cap pre.h.liveI :
          (pre.h.iters[i].current_node = NULL /\ last.op # "delete_iterator")
              => iters[i] = pre.h.iters[i]

C9_Witness ==
    /\ last.op = "iterate"
    /\ last.it # NULL
    /\ pre.h.iters[last.it].current_node = NULL
    /\ pre.h.iters[last.it].current_index = 2
    /\ last.ret = False

\* C10: create_iterator returns NULL for every index >= size (index = size
\* and any index on an empty list included); for an index < size with a
\* successful allocation it returns an iterator whose ll is the list, whose
\* current_index is the index, whose current_node is the node at that
\* position and whose data is that node's value.
C10_CreateIterator ==
    OnList("create_iterator")
        => /\ status = "ok"
           /\ last.index >= SizeThen(last.ll) => (last.ret = NULL /\ Unchanged)
           /\ (last.index < SizeThen(last.ll) /\ last.alloc = "ok")
                 => /\ last.ret # NULL
                    /\ last.ret \in liveI
                    /\ iters[last.ret] =
                          [ll |-> last.ll,
                           current_index |-> last.index,
                           current_node |-> Chain(pre.h, last.ll)[last.index + 1],
                           data |-> Held(last.ll)[last.index + 1]]
                    /\ lists = pre.h.lists
                    /\ nodes = pre.h.nodes

C10_Witness ==
    /\ OnList("create_iterator")
    /\ last.index = 2
    /\ Held(last.ll) = <<1, 1, 2>>
    /\ last.ret # NULL
    /\ iters[last.ret].data = 2

C10_WitnessAtSize ==
    /\ OnList("create_iterator")
    /\ last.index = 2
    /\ SizeThen(last.ll) = 2
    /\ last.ret = NULL

\* C11: from any list state, insert(list, 0, v) produces the same result,
\* chain and size as insert_front(list, v), and insert(list, size, v) the
\* same as insert_end(list, v): the two calls have the same outcomes on every
\* reachable list, and every such call made is an outcome of the other.
StepOutcome == [h |-> Heap, ret |-> last.ret, st |-> status, alloc |-> last.alloc]

C11_InsertEquivalence ==
    /\ status = "ok" =>
         \A ll \in liveL, v \in Values :
            /\ linked_list_insert(Heap, ll, 0, v)
                  = linked_list_insert_front(Heap, ll, v)
            /\ linked_list_insert(Heap, ll, SizeNow(ll), v)
                  = linked_list_insert_end(Heap, ll, v)
    /\ (OnList("insert") /\ last.index = 0)
          => StepOutcome \in linked_list_insert_front(pre.h, last.ll, last.data)
    /\ (OnList("insert") /\ last.index = SizeThen(last.ll))
          => StepOutcome \in linked_list_insert_end(pre.h, last.ll, last.data)
    /\ OnList("insert_front")
          => StepOutcome \in linked_list_insert(pre.h, last.ll, 0, last.data)
    /\ OnList("insert_end")
          => StepOutcome \in linked_list_insert(pre.h, last.ll,
                                                SizeThen(last.ll), last.data)

C11_Witness ==
    /\ OnList("insert")
    /\ last.index = 2
    /\ Held(last.ll) = <<1, 2>>
    /\ last.data = 1
    /\ last.ret = True
    /\ Holds(last.ll) = <<1, 2, 1>>

\* C13: every function given an absent list or iterator returns its failure
\* value (false; SIZE_MAX for size and find; NULL for create_iterator)
\* without a trap and without changing any list, iterator or slot.
ListOps == {"delete", "insert_front", "insert_end", "insert", "remove",
            "size", "find", "create_iterator"}
IterOps == {"iterate", "delete_iterator"}

AbsentArgument ==
    \/ last.op \in ListOps /\ last.ll = NULL
    \/ last.op \in IterOps /\ last.it = NULL

FailureValue(op) ==
    IF op \in {"size", "find"} THEN SIZE_MAX
    ELSE IF op = "create_iterator" THEN NULL
    ELSE False

SlotsUnchanged ==
    malloc_fptr = pre.malloc_fptr /\ free_fptr = pre.free_fptr

C13_AbsentArgumentFails ==
    AbsentArgument
        => /\ status = "ok"
           /\ last.ret = FailureValue(last.op)
           /\ Unchanged
           /\ SlotsUnchanged
           /\ obs = pre.obs

C13_Witness ==
    /\ last.op = "size"
    /\ last.ll = NULL
    /\ last.ret = SIZE_MAX
    /\ liveL # {}
    /\ liveN # {}
    /\ liveI # {}

\* C14: register_malloc and register_free given a non-null function store it
\* in their slot and return true; given a null function they return false
\* and leave the slot as it was; the other slot is never touched.
C14_Register ==
    /\ last.op = "register_malloc"
          => /\ last.fn # NULL => (malloc_fptr = last.fn /\ last.ret = True)
             /\ last.fn = NULL
                   => (malloc_fptr = pre.malloc_fptr /\ last.ret = False)
             /\ free_fptr = pre.free_fptr
             /\ Unchanged
    /\ last.op = "register_free"
          => /\ last.fn # NULL => (free_fptr = last.fn /\ last.ret = True)
             /\ last.fn = NULL
                   => (free_fptr = pre.free_fptr /\ last.ret = False)
             /\ malloc_fptr = pre.malloc_fptr
             /\ Unchanged

C14_Witness ==
    /\ last.op = "register_free"
    /\ last.fn = NULL
    /\ last.ret = False
    /\ pre.free_fptr # NULL
    /\ free_fptr = pre.free_fptr
    /\ malloc_fptr # NULL

C14_WitnessStore ==
    /\ last.op = "register_malloc"
    /\ last.fn # NULL
    /\ pre.malloc_fptr = NULL
    /\ malloc_fptr = last.fn

\* C17: while an iterator's list has not been mutated since the iterator
\* was created and its current_node is not none, current_node is the node
\* at position current_index of the chain, current_index is below the size,
\* and the cached data is that node's value.
C17_IteratorOnNode ==
    status = "ok" =>
        \A i \in liveI :
            (obs[i].fresh /\ iters[i].current_node # NULL)
                => LET c == Chain(Heap, iters[i].ll)
                       k == iters[i].current_index
                   IN /\ k < SizeNow(iters[i].ll)
                      /\ k < Len(c)
                      /\ c[k + 1] = iters[i].current_node
                      /\ iters[i].data = nodes[iters[i].current_node].data

C17_Witness ==
    \E i \in liveI :
        /\ obs[i].fresh
        /\ last.op = "iterate"
        /\ last.it = i
        /\ last.ret = True
        /\ iters[i].current_index = 2
        /\ iters[i].current_node # NULL
        /\ iters[i].data = 2
        /\ Holds(iters[i].ll) = <<1, 1, 2>>

\* C19: an iterator's current_node refers to a released node only if a
\* remove or a delete has been applied to the iterator's list since the
\* iterator was created; inserts and advances alone never leave it
\* referring to released memory.
OnReleased(i) ==
    iters[i].current_node # NULL /\ iters[i].current_node \notin liveN

C19_WitnessDangling ==
    \E i \in liveI : OnReleased(i) /\ obs[i].shrunk /\ status = "ok"

\* C20: in create_iterator on an unmutated, well-formed list, once the
\* bound check of line 226 has passed, the walk from head always ends at an
\* existing node, so that the branch of line 235 is never taken.
WalkThen == IteratorWalk(pre.h.nodes, pre.h.lists[last.ll].head, 0, last.index)

C20_WalkEndsAtNode ==
    (OnList("create_iterator")
        /\ ~IteratorRejects(last.index, SizeThen(last.ll)))
        => WalkThen.cur # NULL

\* C20 as the code has it: the bound check lets index <= size pass; the walk
\* ends at the node at index when index < size, and ends at none, so that
\* the branch of line 235 is taken, exactly when index = size (index 0 of
\* the empty list included); the call then returns NULL without allocating
\* and without changing anything.
C20_WalkEndsAtNodeBelowSize ==
    (OnList("create_iterator") /\ last.index <= SizeThen(last.ll))
        => /\ ~IteratorRejects(last.index, SizeThen(last.ll))
           /\ WalkThen.cur = NULL <=> last.index = SizeThen(last.ll)
           /\ last.index < SizeThen(last.ll)
                 => /\ WalkThen.cur = Chain(pre.h, last.ll)[last.index + 1]
                    /\ WalkThen.idx = last.index
           /\ WalkThen.cur = NULL
                 => (last.ret = NULL /\ last.alloc = "none" /\ Unchanged)

C20_Witness ==
    /\ OnList("create_iterator")
    /\ last.index = 3
    /\ SizeThen(last.ll) = 3
    /\ ~IteratorRejects(last.index, SizeThen(last.ll))
    /\ WalkThen.cur = NULL
    /\ last.ret = NULL

\* C15: delete_iterator on a valid iterator (release function registered)
\* returns true and releases the iterator only: the lists, their chains,
\* node contents and sizes and every other iterator are as before, and no
\* node is released.
C15_DeleteIteratorOnly ==
    (last.op = "delete_iterator" /\ last.it \in pre.h.liveI
        /\ pre.free_fptr # NULL)
        => /\ status = "ok"
           /\ last.ret = True
           /\ liveI = pre.h.liveI \ {last.it}
           /\ \A j \in liveI : iters[j] = pre.h.iters[j] /\ obs[j] = pre.obs[j]
           /\ lists = pre.h.lists
           /\ liveL = pre.h.liveL
           /\ nodes = pre.h.nodes
           /\ liveN = pre.h.liveN

C15_Witness ==
    /\ last.op = "delete_iterator"
    /\ last.it \in pre.h.liveI
    /\ last.ret = True
    /\ \E j \in liveI : iters[j].ll = pre.h.iters[last.it].ll
                        /\ iters[j].current_node # NULL
    /\ Cardinality(liveN) = MaxNodes

\* C12: from an empty list, N successful inserts (front, end or by index)
\* followed by N calls of remove(list, 0) (release function registered):
\* every one of the removes returns true, and after the N-th the head is
\* none and the size is 0.
C12_RoundTrip ==
    (round.phase = "drain" /\ free_fptr # NULL)
        => /\ last.op = "remove"
           /\ last.index = 0
           /\ status = "ok"
           /\ last.ret = True
           /\ round.m = round.n
                 => /\ lists[last.ll].head = NULL
                    /\ lists[last.ll].size = 0
                    /\ linked_list_size(Heap, last.ll)
                          = {Out(Heap, 0, "none")}
                    /\ liveN = {}

C12_Witness ==
    /\ round.phase = "drain"
    /\ round.n = MaxNodes
    /\ round.m = round.n
    /\ last.op = "remove"
    /\ last.ret = True
    /\ Held(last.ll) = <<MaxVal>>
    /\ Holds(last.ll) = <<>>

\* C16: over every sequence of create, insert, remove and delete calls
\* (release function registered), every header and node block is released
\* exactly once: each node on a live list's chain is unreleased and occurs
\* there once, every unreleased node is on such a chain, a node is released
\* only by the remove that unlinks it or by the delete of its list, and a
\* delete leaves no header or node of its list unreleased.
ChainSet(h, ll) == {Chain(h, ll)[i] : i \in 1..Len(Chain(h, ll))}
OwnedNodes(h)   == UNION {ChainSet(h, ll) : ll \in h.liveL}
Released        == pre.h.liveN \ liveN

C16_ReleasedExactlyOnce ==
    free_fptr # NULL
        => /\ \A ll \in liveL :
                /\ ChainSet(Heap, ll) \subseteq liveN
                /\ Cardinality(ChainSet(Heap, ll)) = Len(Chain(Heap, ll))
           /\ liveN = OwnedNodes(Heap)
           /\ Released # {} => last.op \in Shrinkers
           /\ (OnList("remove") /\ last.ret = True)
                 => /\ last.index < Len(Chain(pre.h, last.ll))
                    /\ Released = {Chain(pre.h, last.ll)[last.index + 1]}
           /\ (OnList("remove") /\ last.ret # True) => Released = {}
           /\ (OnList("delete") /\ last.ret = True)
                 => /\ Released = ChainSet(pre.h, last.ll)
                    /\ last.ll \in pre.h.liveL
                    /\ last.ll \notin liveL

\* C18: in every state with several lists alive, the chain from each
\* list's head is acyclic and ends in none, every node on it is unreleased,
\* and no node is on the chains of two lists.
C18_ChainsApart ==
    Cardinality(liveL) > 1
        => /\ \A ll \in liveL :
                /\ Len(Chain(Heap, ll)) <= MaxNodes
                /\ Cardinality(ChainSet(Heap, ll)) = Len(Chain(Heap, ll))
                /\ ChainSet(Heap, ll) \subseteq liveN
           /\ \A l1 \in liveL, l2 \in liveL :
                l1 # l2 => ChainSet(Heap, l1) \cap ChainSet(Heap, l2) = {}

====
